---- MODULE Spec2Model ----
(***************************************************************************)
(* BioFeedback-VR PythonBiofeedbackServer: the sensors module (virtual    *)
(* clock, signal generator, HRV tracker, stress index, baseline protocol) *)
(* and the asyncio WebSocket server (command dispatcher, tick, registry,  *)
(* broadcaster).                                                           *)
(*                                                                         *)
(* Scales.  Virtual time is counted in units of 1/TimeUnit second, the    *)
(* coarsest unit in which the stream intervals 1/hz of all frequencies    *)
(* used here (0.1, 0.167, 0.2, 1, 10, 50 Hz) are whole numbers.           *)
(* Frequencies are in mHz, HR in 0.1 BPM, EDA in 0.001 uS, HRV in 0.1 ms, *)
(* the stress index in 0.1 points: the resolutions a Sample is rounded to.*)
(***************************************************************************)
EXTENDS Integers, Sequences, FiniteSets, TLC

(* ---------------------------------------------------------------------- *)
(* Scales and program constants                                           *)
(* ---------------------------------------------------------------------- *)
TimeUnit == 50 * 167

Sec(n) == n * TimeUnit

resting_period_seconds == 180

baseline_window_seconds == 60

hrv_window_size == 20

base_hr == 750

base_eda == 2000

DefaultBaselineHrv == 500

MinBaselineSamples == 10

DefaultFrequency == 167

MinFrequency == 100

MaxFrequency == 50000

ValidScenarios == {"baseline", "stress_buildup", "recovery", "mixed"}

(* ---------------------------------------------------------------------- *)
(* Bounds of the exploration                                              *)
(* ---------------------------------------------------------------------- *)
\* commands the clients send in total
MaxMsgs == 3

\* successful ticks of one server instance (length of the session log)
MaxLog == 2

\* baseline samples collected before exploration stops
MaxSamples == 12

\* ticks a previous server instance of the same process has already run
\* over the module-level sensors state when a warm server is constructed
WarmTicks == 30

\* virtual time up to which the tick-only specification runs
MaxTime == 250

Conns == {"c1", "c2"}

(* ---------------------------------------------------------------------- *)
(* Arithmetic helpers                                                     *)
(* ---------------------------------------------------------------------- *)
Min(a, b) == IF a < b THEN a ELSE b

Max(a, b) == IF a > b THEN a ELSE b

Abs(a) == IF a < 0 THEN -a ELSE a

\* float("nan"), and what float arithmetic and comparison do with it
NaN == -1

FloatLess(a, b) == a # NaN /\ b # NaN /\ a < b

FloatAdd(a, b) == IF a = NaN \/ b = NaN THEN NaN ELSE a + b

\* sensors.clamp: max(min_val, min(value, max_val))
clamp(value, min_val, max_val) == Max(min_val, Min(value, max_val))

RECURSIVE SqrtSearch(_, _, _)
SqrtSearch(n, lo, hi) ==
    IF lo >= hi THEN lo
    ELSE LET mid == (lo + hi + 1) \div 2
         IN IF mid * mid <= n THEN SqrtSearch(n, mid, hi)
                              ELSE SqrtSearch(n, lo, mid - 1)

\* variance ** 0.5, truncated to the value resolution
ISqrt(n) == SqrtSearch(n, 0, 46340)

RECURSIVE SumUpTo(_, _)
\* f[1] + ... + f[n]
SumUpTo(f, n) == IF n = 0 THEN 0 ELSE f[n] + SumUpTo(f, n - 1)

\* sum() of a list
SumSeq(s) == SumUpTo(s, Len(s))

(* ---------------------------------------------------------------------- *)
(* Random source: numpy's global generator is a seeded deterministic      *)
(* sequence.  A draw stands for the sum of the sinusoidal variations and  *)
(* the Gaussian noise term of one signal call; the Gaussian is unbounded, *)
(* so draws far outside the clamp range occur.                            *)
(* ---------------------------------------------------------------------- *)
HrDraws == <<0, 1300, -450, 23>>

EdaDraws == <<0, 9500, -2500, 140>>

RngPeriod == Len(HrDraws)

\* generator positions a process starts from
Seeds == {0}

HrDraw(r) == HrDraws[(r % RngPeriod) + 1]

EdaDraw(r) == EdaDraws[(r % RngPeriod) + 1]

(* ---------------------------------------------------------------------- *)
(* sensors.py: signal generator                                           *)
(* ---------------------------------------------------------------------- *)
\* base term of get_hr for virtual time t and scenario sc
HrBase(t, sc) ==
    CASE sc = "baseline" -> base_hr
      [] sc = "stress_buildup" ->
            base_hr + (Min(t, Sec(30)) * 200) \div Sec(30)
      [] sc = "recovery" ->
            IF t < Sec(10)
            THEN base_hr + ((Sec(10) - t) * 150) \div Sec(10)
            ELSE base_hr
      [] OTHER ->
            IF t < Sec(20) THEN base_hr
            ELSE IF t < Sec(40)
            THEN base_hr + ((t - Sec(20)) * 250) \div Sec(20)
            ELSE base_hr + ((Sec(20) - Min(t - Sec(40), Sec(20))) * 200) \div Sec(20)

\* base term of get_eda
EdaBase(t, sc) ==
    CASE sc = "baseline" -> base_eda
      [] sc = "stress_buildup" ->
            base_eda + (Min(t, Sec(45)) * 2000) \div Sec(45)
      [] sc = "recovery" ->
            IF t < Sec(20)
            THEN base_eda + ((Sec(20) - t) * 1800) \div Sec(20)
            ELSE base_eda
      [] OTHER ->
            IF t < Sec(20) THEN base_eda
            ELSE IF t < Sec(40)
            THEN base_eda + ((t - Sec(20)) * 2500) \div Sec(30)
            ELSE base_eda + ((Sec(30) - Min(t - Sec(40), Sec(30))) * 2200) \div Sec(30)

\* get_hr without its clamp
HrValue_raw(t, sc, r) == HrBase(t, sc) + HrDraw(r)

\* value returned by get_hr
HrValue(t, sc, r) == clamp(HrBase(t, sc) + HrDraw(r), 500, 1800)

\* a history that is never cut
PushHistory_all(hist, hr) == Append(hist, hr)

\* history after get_hr appended hr: only the most recent hrv_window_size
PushHistory(hist, hr) ==
    LET h == Append(hist, hr)
    IN IF Len(h) > hrv_window_size
       THEN SubSeq(h, Len(h) - hrv_window_size + 1, Len(h))
       ELSE h

\* value returned by get_eda
get_eda(t, sc, r) == clamp(EdaBase(t, sc) + EdaDraw(r), 100, 10000)

\* get_hrv on a history of two or more values: SDNN of the successive
\* RR-interval differences
Sdnn(hist) ==
    LET n  == Len(hist) - 1
        rr == [i \in 1..(n + 1) |-> 6000000 \div hist[i]]
        nn == [i \in 1..n |-> Abs(rr[i + 1] - rr[i])]
    IN CHOOSE sdnn \in
          {clamp(ISqrt(SumUpTo([i \in 1..n |-> (nn[i] - mean_nn) * (nn[i] - mean_nn)], n) \div n),
                 100, 2000) : mean_nn \in {SumUpTo(nn, n) \div n}} : TRUE

\* get_hrv asking for three values before it computes
get_hrv_three(hist) == IF Len(hist) < 3 THEN 500 ELSE Sdnn(hist)

\* get_hrv
get_hrv(hist) == IF Len(hist) < 2 THEN 500 ELSE Sdnn(hist)

\* compute_stress_index with the default weights 0.33 / 0.33 / 0.34
compute_stress_index(hr, eda, hrv) ==
    LET norm_hr  == clamp(((hr - 450) * 10000) \div 1350, 0, 10000)
        norm_eda == clamp(eda, 0, 10000)
        norm_hrv == clamp(10000 - ((hrv - 100) * 10000) \div 1900, 0, 10000)
    IN (33 * norm_hr + 33 * norm_eda + 34 * norm_hrv + 500) \div 1000

(* ---------------------------------------------------------------------- *)
(* sensors.py: module state.  A simulation state s is the record of the   *)
(* module globals plus the position of the random generator.              *)
(* ---------------------------------------------------------------------- *)
\* the module globals as the import of sensors.py leaves them
ImportedSensors(seed) ==
    [current_time      |-> 0,
     scenario          |-> "mixed",
     hr_history        |-> << >>,
     baseline_computed |-> FALSE,
     baseline_hr       |-> base_hr,
     baseline_eda      |-> base_eda,
     baseline_hrv      |-> DefaultBaselineHrv,
     baseline_samples  |-> << >>,
     rng               |-> seed]

\* get_hr: the value it returns
get_hr_value(s) == HrValue(s.current_time, s.scenario, s.rng)

\* get_hr: the state it leaves (one draw, one push to the history)
get_hr(s) ==
    [s EXCEPT !.hr_history = PushHistory(@, get_hr_value(s)),
              !.rng = (@ + 1) % RngPeriod]

\* SimConnector.read: get_hr, get_eda, get_hrv in this order
SimRead(s) ==
    CHOOSE rd \in
       {[state |-> [s1 EXCEPT !.rng = (@ + 1) % RngPeriod],
         hr    |-> get_hr_value(s),
         eda   |-> get_eda(s1.current_time, s1.scenario, s1.rng),
         hrv   |-> get_hrv(s1.hr_history)] : s1 \in {get_hr(s)}} : TRUE

advance_time(s, dt) == [s EXCEPT !.current_time = FloatAdd(@, dt)]

reset_time(s) == [s EXCEPT !.current_time = 0]

\* a set_scenario that assigns before it validates
set_scenario_eager(s, name) ==
    [state |-> [s EXCEPT !.scenario = name], raised |-> name \notin ValidScenarios]

\* set_scenario: [state, raised]
set_scenario(s, name) ==
    IF name \in ValidScenarios
    THEN [state |-> [s EXCEPT !.scenario = name], raised |-> FALSE]
    ELSE [state |-> s, raised |-> TRUE]

(* ---------------------------------------------------------------------- *)
(* sensors.py: baseline protocol                                          *)
(* ---------------------------------------------------------------------- *)
is_in_resting_period(s) == FloatLess(s.current_time, Sec(resting_period_seconds))

\* a window that includes its end
is_in_baseline_window_closed(s) ==
    /\ s.current_time # NaN
    /\ Sec(resting_period_seconds) <= s.current_time
    /\ s.current_time <= Sec(resting_period_seconds + baseline_window_seconds)

is_in_baseline_window(s) ==
    /\ s.current_time # NaN
    /\ Sec(resting_period_seconds) <= s.current_time
    /\ s.current_time < Sec(resting_period_seconds + baseline_window_seconds)

\* a collect decision that forgets the window
should_collect_baseline_sample_any(s) == ~s.baseline_computed

should_collect_baseline_sample(s) ==
    is_in_baseline_window(s) /\ ~s.baseline_computed

collect_baseline_sample(s, hr, eda, hrv) ==
    [s EXCEPT !.baseline_samples =
        Append(@, [time |-> s.current_time, hr |-> hr, eda |-> eda, hrv |-> hrv])]

\* compute_baseline_values dividing by the threshold, not by the count
compute_baseline_values_ten(s) ==
    IF Len(s.baseline_samples) < MinBaselineSamples
    THEN [state |-> s, result |-> FALSE]
    ELSE LET n == Len(s.baseline_samples)
             hr_values  == [i \in 1..n |-> s.baseline_samples[i].hr]
             eda_values == [i \in 1..n |-> s.baseline_samples[i].eda]
             hrv_values == [i \in 1..n |-> s.baseline_samples[i].hrv]
         IN [state |-> [s EXCEPT !.baseline_hr  = SumSeq(hr_values) \div MinBaselineSamples,
                                 !.baseline_eda = SumSeq(eda_values) \div MinBaselineSamples,
                                 !.baseline_hrv = SumSeq(hrv_values) \div MinBaselineSamples,
                                 !.baseline_computed = TRUE],
             result |-> TRUE]

\* compute_baseline_values accepting any non-empty store
compute_baseline_values_low(s) ==
    IF Len(s.baseline_samples) < 1
    THEN [state |-> s, result |-> FALSE]
    ELSE LET n == Len(s.baseline_samples)
             hr_values  == [i \in 1..n |-> s.baseline_samples[i].hr]
             eda_values == [i \in 1..n |-> s.baseline_samples[i].eda]
             hrv_values == [i \in 1..n |-> s.baseline_samples[i].hrv]
         IN [state |-> [s EXCEPT !.baseline_hr  = SumSeq(hr_values) \div n,
                                 !.baseline_eda = SumSeq(eda_values) \div n,
                                 !.baseline_hrv = SumSeq(hrv_values) \div n,
                                 !.baseline_computed = TRUE],
             result |-> TRUE]

\* compute_baseline_values: [state, result]
compute_baseline_values(s) ==
    IF Len(s.baseline_samples) < MinBaselineSamples
    THEN [state |-> s, result |-> FALSE]
    ELSE LET n == Len(s.baseline_samples)
             hr_values  == [i \in 1..n |-> s.baseline_samples[i].hr]
             eda_values == [i \in 1..n |-> s.baseline_samples[i].eda]
             hrv_values == [i \in 1..n |-> s.baseline_samples[i].hrv]
         IN [state |-> [s EXCEPT !.baseline_hr  = SumSeq(hr_values) \div n,
                                 !.baseline_eda = SumSeq(eda_values) \div n,
                                 !.baseline_hrv = SumSeq(hrv_values) \div n,
                                 !.baseline_computed = TRUE],
             result |-> TRUE]

get_baseline_status(s) ==
    [current_time               |-> s.current_time,
     in_resting_period          |-> is_in_resting_period(s),
     in_baseline_window         |-> is_in_baseline_window(s),
     baseline_computed          |-> s.baseline_computed,
     baseline_samples_collected |-> Len(s.baseline_samples)]

\* a reset that also forgets the HR history
reset_baseline_protocol_all(s) ==
    [s EXCEPT !.baseline_computed = FALSE,
              !.baseline_samples  = << >>,
              !.current_time      = 0,
              !.hr_history        = << >>,
              !.baseline_hr       = base_hr,
              !.baseline_eda      = base_eda,
              !.baseline_hrv      = DefaultBaselineHrv]

reset_baseline_protocol(s) ==
    [s EXCEPT !.baseline_computed = FALSE,
              !.baseline_samples  = << >>,
              !.current_time      = 0,
              !.baseline_hr       = base_hr,
              !.baseline_eda      = base_eda,
              !.baseline_hrv      = DefaultBaselineHrv]

is_baseline_protocol_complete(s) ==
    /\ s.current_time # NaN
    /\ s.current_time >= Sec(resting_period_seconds + baseline_window_seconds)
    /\ s.baseline_computed

(* ---------------------------------------------------------------------- *)
(* biofeedback_server.py: generate_biofeedback_sample (the tick), in the  *)
(* three parts its statements fall into                                   *)
(* ---------------------------------------------------------------------- *)
\* the "Baseline sample collected" log line applies len() to the integer
\* status field baseline_samples_collected: the f-string raises TypeError
SampleLogLineRaises(status) == TRUE

\* lines 101-113: [state, raised]
BaselineBlock(s, hr, eda, hrv) ==
    LET baseline_status == get_baseline_status(s)
    IN IF should_collect_baseline_sample(s)
       THEN LET s1 == collect_baseline_sample(s, hr, eda, hrv)
            IN IF SampleLogLineRaises(baseline_status)
               THEN [state |-> s1, raised |-> TRUE]
               ELSE IF baseline_status.baseline_samples_collected >= MinBaselineSamples
                    THEN [state |-> compute_baseline_values(s1).state, raised |-> FALSE]
                    ELSE [state |-> s1, raised |-> FALSE]
       ELSE [state |-> s, raised |-> FALSE]

\* a Sample labelled with the scenario the module starts with
MakeSample_default(s, hr, eda, hrv) ==
    [hr       |-> hr,
     eda      |-> eda,
     hrv      |-> hrv,
     stress   |-> compute_stress_index(hr, eda, hrv),
     scenario |-> "mixed"]

\* lines 115-127: the Sample (the wall-clock timestamp is left out)
MakeSample(s, hr, eda, hrv) ==
    [hr       |-> hr,
     eda      |-> eda,
     hrv      |-> hrv,
     stress   |-> compute_stress_index(hr, eda, hrv),
     scenario |-> s.scenario]

NoSample == [hr |-> 0, eda |-> 0, hrv |-> 0, stress |-> 0, scenario |-> "none"]

\* the whole tick as a function: [state, raised, sample]; the session-log
\* append of line 133 is the caller's part of the state
generate_biofeedback_sample(s, interval) ==
    CHOOSE r \in
       {IF bb.raised
        THEN [state |-> bb.state, raised |-> TRUE, sample |-> NoSample]
        ELSE [state  |-> advance_time(bb.state, interval),
              raised |-> FALSE,
              sample |-> MakeSample(bb.state, rd.hr, rd.eda, rd.hrv)] :
          <<rd, bb>> \in {<<x, BaselineBlock(x.state, x.hr, x.eda, x.hrv)>> :
                            x \in {SimRead(s)}}} : TRUE

\* stream_interval = 1.0 / stream_frequency
\* an interval taken to be the frequency
IntervalOf_hz(mhz) == mhz

IntervalOf(mhz) == IF mhz = NaN THEN NaN ELSE (1000 * TimeUnit) \div mhz

RECURSIVE AfterTicks(_, _, _)
\* the sensors state after n ticks at the given interval
AfterTicks(n, s, interval) ==
    IF n = 0 THEN s
    ELSE CHOOSE r \in {AfterTicks(n - 1, s1, interval) :
                          s1 \in {generate_biofeedback_sample(s, interval).state}} : TRUE

(* ---------------------------------------------------------------------- *)
(* State                                                                  *)
(* ---------------------------------------------------------------------- *)
VARIABLES
    sensors,           \* sensors.py module globals (one simulation state)
    stream_frequency,  \* BiofeedbackServer.stream_frequency, mHz
    stream_interval,   \* BiofeedbackServer.stream_interval, time units
    subscribers,       \* BiofeedbackServer.subscribers
    client_counter,    \* BiofeedbackServer.client_counter
    session_data,      \* BiofeedbackServer.session_data
    running,           \* BiofeedbackServer.running
    cur,               \* the task the event loop is running ("none": idle)
    bpc,               \* position of the broadcaster task
    bloc,              \* locals of broadcast_to_subscribers
    cpc,               \* position of each connection's handle_client task
    cloc,              \* locals of each handler
    copen,             \* transport of the connection is open
    stalled,           \* connections whose peer has stopped reading
    delivered,         \* per client: the message of the send that completed last
    reg,               \* per connection: last registry command, and whether
                       \* a send to it has failed since its last subscribe,
                       \* whether a subscription_confirmed was put on it
    mpc,               \* position of the main task (main, start_server, stop_server)
    mloc,              \* locals of stop_server
    wire,              \* per connection: what the shutdown put on it, in order
    saved,             \* the session artifacts written to ../output
    connector_closes   \* number of connector.close() calls

vars == <<sensors, stream_frequency, stream_interval, subscribers,
          client_counter, session_data, running, cur, bpc, bloc, cpc, cloc,
          copen, stalled, delivered, reg, mpc, mloc, wire, saved,
          connector_closes>>

\* what only the shutdown path writes
mainVars == <<mpc, mloc, wire, saved, connector_closes>>

serverVars == <<stream_frequency, stream_interval, subscribers, client_counter,
                running, cur, bpc, bloc, cpc, cloc, copen, stalled, delivered, reg,
                mpc, mloc, wire, saved, connector_closes>>

(* ---------------------------------------------------------------------- *)
(* Messages                                                               *)
(* ---------------------------------------------------------------------- *)
Msg(type, data, detail, info) ==
    [type |-> type, data |-> data, detail |-> detail, info |-> info]

NoMsg == Msg("none", NoSample, "", << >>)

\* decoded requests a client sends; hz is tagged with how float() takes it:
\* a JSON number, a string that spells a number, a string that does not
\* ("str": ValueError), null (TypeError), NaN (the JSON literal NaN or the
\* string "nan"), or no hz field at all
NoHz == [kind |-> "missing", val |-> 0]

HzInputs == {[kind |-> "num", val |-> 1000],
             [kind |-> "num", val |-> MaxFrequency],
             [kind |-> "num", val |-> MinFrequency - 1],
             [kind |-> "num", val |-> MaxFrequency + 1],
             [kind |-> "numstr", val |-> 200],
             [kind |-> "str", val |-> 0],
             [kind |-> "null", val |-> 0],
             [kind |-> "nan", val |-> 0],
             NoHz}

ScenarioInputs == {"baseline", "recovery", "panic"}

\* float(request.get("hz", self.stream_frequency)): [raised, val]
RequestedHz(hz, default) ==
    CASE hz.kind = "missing" -> [raised |-> FALSE, val |-> default]
      [] hz.kind \in {"num", "numstr"} -> [raised |-> FALSE, val |-> hz.val]
      [] hz.kind = "nan" -> [raised |-> FALSE, val |-> NaN]
      [] OTHER -> [raised |-> TRUE, val |-> 0]

\* if hz < 0.1 or hz > 50.0
OutOfRange(hz) == FloatLess(hz, MinFrequency) \/ FloatLess(MaxFrequency, hz)

Req(command, hz, scenario) == [command |-> command, hz |-> hz, scenario |-> scenario]

Requests ==
    {Req(c, NoHz, "") : c \in {"subscribe", "unsubscribe", "status", "STATUS",
                                "bogus", "", "notjson", "notobject"}}
    \cup {Req("set_frequency", h, "") : h \in HzInputs}
    \cup {Req("set_scenario", NoHz, sc) : sc \in ScenarioInputs}

\* the requests clients send while the broadcaster runs
StreamRequests ==
    {Req(c, NoHz, "") : c \in {"subscribe", "unsubscribe"}}

(* ---------------------------------------------------------------------- *)
(* Initial state: a server after construction.  The sensors state is      *)
(* module-level and outlives server instances: the server is constructed  *)
(* either right after import, or in a process where an earlier instance   *)
(* already produced WarmTicks samples at the default frequency.           *)
(* ---------------------------------------------------------------------- *)
IdleLocals == [hr |-> 0, eda |-> 0, hrv |-> 0, entry |-> << >>]

BcLocals0 ==
    [hr |-> 0, eda |-> 0, hrv |-> 0, entry |-> << >>,
     sample |-> NoSample, message |-> NoMsg,
     snapshot |-> {}, todo |-> {}, target |-> "none",
     disconnected_clients |-> {}, sent_ok |-> {}, send_failed |-> {}]

HandlerLocals0 ==
    [hr |-> 0, eda |-> 0, hrv |-> 0, entry |-> << >>,
     handled |-> 0, command |-> "none", response |-> NoMsg]

\* BiofeedbackServer.__init__ with stream_frequency = f
\* stop_server before its loop: no snapshot, no connection being notified
StopLocals0 == [call |-> 0, snapshot |-> {}, todo |-> {}, target |-> "none",
                failed |-> {}]

Constructed(f) ==
    /\ stream_frequency = f
    /\ stream_interval = IntervalOf(f)
    /\ subscribers = {}
    /\ client_counter = 0
    /\ session_data = << >>
    /\ running = FALSE
    /\ cur = "none"
    /\ bpc = "off"
    /\ bloc = BcLocals0
    /\ cpc = [c \in Conns |-> "new"]
    /\ cloc = [c \in Conns |-> HandlerLocals0]
    /\ copen = [c \in Conns |-> FALSE]
    /\ stalled = {}
    /\ delivered = [c \in Conns |-> NoMsg]
    /\ mpc = "main"
    /\ mloc = StopLocals0
    /\ wire = [c \in Conns |-> << >>]
    /\ saved = << >>
    /\ connector_closes = 0
    /\ reg = [c \in Conns |-> [last |-> "none", clean |-> TRUE, confirmed |-> FALSE]]

ServerInit == Constructed(DefaultFrequency)

Init ==
    /\ \E seed \in Seeds :
          \/ sensors = ImportedSensors(seed)
          \/ sensors = AfterTicks(WarmTicks, ImportedSensors(seed), IntervalOf(DefaultFrequency))
    /\ ServerInit

(* ---------------------------------------------------------------------- *)
(* The tick, as a task executes it                                        *)
(* ---------------------------------------------------------------------- *)
\* a tick that awaited between its statements would hand the loop back
TickHolds_await(task) == "none"

\* generate_biofeedback_sample is a plain function without await: the task
\* that runs it keeps the event loop from its first to its last statement
TickHolds(task) == task

\* exploration bound on ticks
TickAllowed ==
    /\ sensors.current_time # NaN
    /\ Len(session_data) < MaxLog
    /\ Len(sensors.baseline_samples) < MaxSamples

\* commands handled so far, over all connections
Handled == cloc["c1"].handled + cloc["c2"].handled

\* what the caller saw when it called the tick
TickEntry == <<sensors.current_time, sensors.hr_history,
               Len(sensors.baseline_samples), Len(session_data)>>

InTick(pc) == pc \in {"tick_baseline", "tick_commit"}

(* ---------------------------------------------------------------------- *)
(* biofeedback_server.py: handle_client_message, every command but `once` *)
(* (none of them awaits: each runs to its return in one step)             *)
(* ---------------------------------------------------------------------- *)
\* the state a command leaves and the response it returns
\* a discard that empties the registry
RegistryDiscard_clear(subs, c) == {}

\* self.subscribers.discard(websocket)
RegistryDiscard(subs, c) == subs \ {c}

\* str.lower() on the command names clients spell in capitals
Lower(name) == IF name = "STATUS" THEN "status" ELSE name

\* a request without a command field taken as a status request
Command_status(req) == IF req.command = "" THEN "status" ELSE Lower(req.command)

\* request.get("command", "").lower()
Command(req) == Lower(req.command)

\* "valid_scenarios" of the error response
ValidScenarioList == <<"baseline", "stress_buildup", "recovery", "mixed">>

\* a status that counts the subscriptions ever made
StatusInfo_counter ==
    <<IF running THEN 1 ELSE 0, client_counter, stream_frequency, Len(session_data)>>

\* "server_info" of the status response: running, connected_clients,
\* stream_frequency_hz, samples_generated (uptime is wall-clock time)
StatusInfo ==
    <<IF running THEN 1 ELSE 0, Cardinality(subscribers), stream_frequency,
      Len(session_data)>>

Dispatch(c, req) ==
    LET keep == [subscribers      |-> subscribers,
                 client_counter   |-> client_counter,
                 stream_frequency |-> stream_frequency,
                 stream_interval  |-> stream_interval,
                 sensors          |-> sensors,
                 last             |-> reg[c].last,
                 response         |-> NoMsg]
    IN CASE Command(req) = "notjson" ->
              [keep EXCEPT !.response = Msg("error", NoSample, "Invalid JSON format", << >>)]
         [] Command(req) = "notobject" ->
              [keep EXCEPT !.response = Msg("error", NoSample, "Server error", << >>)]
         [] Command(req) = "subscribe" ->
              [keep EXCEPT !.subscribers = subscribers \cup {c},
                           !.client_counter = client_counter + 1,
                           !.last = "subscribe",
                           !.response = Msg("subscription_confirmed", NoSample, "",
                                            <<client_counter + 1, stream_frequency>>)]
         [] Command(req) = "unsubscribe" ->
              [keep EXCEPT !.subscribers = RegistryDiscard(subscribers, c),
                           !.last = "unsubscribe",
                           !.response = Msg("unsubscription_confirmed", NoSample, "", << >>)]
         [] Command(req) = "status" ->
              [keep EXCEPT !.response =
                  Msg("status", NoSample, "", StatusInfo)]
         [] Command(req) = "set_frequency" ->
              IF RequestedHz(req.hz, stream_frequency).raised
              THEN [keep EXCEPT !.response =
                       Msg("error", NoSample, "Invalid frequency value",
                           <<req.hz, stream_frequency>>)]
              ELSE LET hz == RequestedHz(req.hz, stream_frequency).val
                   IN IF OutOfRange(hz)
                      THEN [keep EXCEPT !.response =
                               Msg("error", NoSample, "Invalid frequency", <<hz, stream_frequency>>)]
                      ELSE [keep EXCEPT !.stream_frequency = hz,
                                        !.stream_interval = IntervalOf(hz),
                                        !.response =
                                            Msg("frequency_changed", NoSample, "",
                                                <<stream_frequency, hz, IntervalOf(hz)>>)]
         [] Command(req) = "set_scenario" ->
              IF req.scenario \in ValidScenarios
              THEN [keep EXCEPT !.sensors = set_scenario(sensors, req.scenario).state,
                                !.response = Msg("scenario_changed", NoSample, req.scenario, << >>)]
              ELSE [keep EXCEPT !.response =
                       Msg("error", NoSample, "Invalid scenario", ValidScenarioList)]
         [] OTHER ->
              [keep EXCEPT !.response = Msg("error", NoSample, "Unknown command", << >>)]

(* ---------------------------------------------------------------------- *)
(* biofeedback_server.py: start_server, handle_client                     *)
(* ---------------------------------------------------------------------- *)
\* start_server: running = True, the broadcaster task is created
StartServer ==
    /\ ~running
    /\ bpc = "off"
    /\ running' = TRUE
    /\ bpc' = "start"
    /\ UNCHANGED mainVars
    /\ UNCHANGED <<sensors, stream_frequency, stream_interval, subscribers,
                   client_counter, session_data, cur, bloc, cpc, cloc, copen,
                   stalled, delivered, reg>>

\* a client connects: websockets.serve starts handle_client for it
Connect(c) ==
    /\ running
    /\ cur = "none"
    /\ cpc[c] = "new"
    /\ cpc' = [cpc EXCEPT ![c] = "recv"]
    /\ copen' = [copen EXCEPT ![c] = TRUE]
    /\ UNCHANGED mainVars
    /\ UNCHANGED <<sensors, stream_frequency, stream_interval, subscribers,
                   client_counter, session_data, running, cur, bpc, bloc, cloc,
                   stalled, delivered, reg>>

\* a message arrives and handle_client_message runs up to its return (any
\* command but `once`); the handler then awaits the send of the response.
\* No await separates the return from the call of websocket.send, which
\* puts the frame on the connection before it first suspends: the response
\* is on the connection, in order, when this step ends (a connection
\* delivers its frames in the order they were put on it).
HandleCommand(c, req) ==
    /\ cur = "none"
    /\ cpc[c] = "recv"
    /\ copen[c]
    /\ Handled < MaxMsgs
    /\ req.command # "once"
    /\ LET d == Dispatch(c, req)
       IN /\ subscribers' = d.subscribers
          /\ client_counter' = d.client_counter
          /\ stream_frequency' = d.stream_frequency
          /\ stream_interval' = d.stream_interval
          /\ sensors' = d.sensors
          /\ reg' = [reg EXCEPT ![c] = [last  |-> d.last,
                                        clean |-> IF req.command = "subscribe"
                                                  THEN TRUE ELSE reg[c].clean,
                                        confirmed |-> IF req.command = "subscribe"
                                                      THEN TRUE ELSE reg[c].confirmed]]
          /\ cloc' = [cloc EXCEPT ![c].handled = @ + 1,
                                  ![c].command = req.command,
                                  ![c].response = d.response]
    /\ cpc' = [cpc EXCEPT ![c] = "respond"]
    /\ UNCHANGED mainVars
    /\ UNCHANGED <<session_data, running, cur, bpc, bloc, copen, stalled, delivered>>

\* `once` arrives: generate_biofeedback_sample is entered, connector.read()
OnceRead(c) ==
    /\ cur = "none"
    /\ cpc[c] = "recv"
    /\ copen[c]
    /\ Handled < MaxMsgs
    /\ TickAllowed
    /\ LET rd == SimRead(sensors)
       IN /\ sensors' = rd.state
          /\ cloc' = [cloc EXCEPT ![c].handled = @ + 1,
                                  ![c].command = "once",
                                  ![c].response = NoMsg,
                                  ![c].hr = rd.hr, ![c].eda = rd.eda, ![c].hrv = rd.hrv,
                                  ![c].entry = TickEntry]
    /\ cpc' = [cpc EXCEPT ![c] = "tick_baseline"]
    /\ cur' = TickHolds(c)
    /\ UNCHANGED mainVars
    /\ UNCHANGED <<stream_frequency, stream_interval, subscribers, client_counter,
                   session_data, running, bpc, bloc, copen, stalled, delivered, reg>>

\* `once`: the baseline block of the tick; an exception leaves the tick and
\* is turned into the "Server error" response by the handler's except
OnceBaseline(c) ==
    /\ cur \in {c, "none"}
    /\ cpc[c] = "tick_baseline"
    /\ LET bb == BaselineBlock(sensors, cloc[c].hr, cloc[c].eda, cloc[c].hrv)
       IN /\ sensors' = bb.state
          /\ IF bb.raised
             THEN /\ cloc' = [cloc EXCEPT ![c].response =
                                 Msg("error", NoSample, "Server error", << >>)]
                  /\ cpc' = [cpc EXCEPT ![c] = "respond"]
                  /\ cur' = "none"
             ELSE /\ cloc' = cloc
                  /\ cpc' = [cpc EXCEPT ![c] = "tick_commit"]
                  /\ cur' = TickHolds(c)
    /\ UNCHANGED mainVars
    /\ UNCHANGED <<stream_frequency, stream_interval, subscribers, client_counter,
                   session_data, running, bpc, bloc, copen, stalled, delivered, reg>>

\* `once`: stress index, Sample, clock advance, session-log append, return;
\* the handler wraps the Sample and awaits the send of the response
OnceCommit(c) ==
    /\ cur \in {c, "none"}
    /\ cpc[c] = "tick_commit"
    /\ LET sample == MakeSample(sensors, cloc[c].hr, cloc[c].eda, cloc[c].hrv)
       IN /\ sensors' = advance_time(sensors, stream_interval)
          /\ session_data' = Append(session_data, sample)
          /\ cloc' = [cloc EXCEPT ![c].response = Msg("sample", sample, "", << >>)]
    /\ cpc' = [cpc EXCEPT ![c] = "respond"]
    /\ cur' = "none"
    /\ UNCHANGED mainVars
    /\ UNCHANGED <<stream_frequency, stream_interval, subscribers, client_counter,
                   running, bpc, bloc, copen, stalled, delivered, reg>>

\* await websocket.send(response) completes: the client has the response
RespondOk(c) ==
    /\ cur = "none"
    /\ cpc[c] = "respond"
    /\ copen[c]
    /\ c \notin stalled
    /\ delivered' = [delivered EXCEPT ![c] = cloc[c].response]
    /\ cpc' = [cpc EXCEPT ![c] = "recv"]
    /\ cloc' = [cloc EXCEPT ![c] = [HandlerLocals0 EXCEPT !.handled = cloc[c].handled]]
    /\ UNCHANGED mainVars
    /\ UNCHANGED <<sensors, stream_frequency, stream_interval, subscribers,
                   client_counter, session_data, running, cur, bpc, bloc,
                   copen, stalled, reg>>

\* a finally clause that leaves the registry as it is
HandlerFinally_keep(subs, c) == subs

\* finally: self.subscribers.discard(websocket)
HandlerFinally(subs, c) == RegistryDiscard(subs, c)

\* await websocket.send(response) raises (ConnectionClosed on a closed
\* transport, or any other exception): the handler leaves its loop, the
\* finally clause discards the connection, the connection is closed
RespondFail(c) ==
    /\ cur = "none"
    /\ cpc[c] = "respond"
    /\ subscribers' = HandlerFinally(subscribers, c)
    /\ cpc' = [cpc EXCEPT ![c] = "done"]
    /\ copen' = [copen EXCEPT ![c] = FALSE]
    /\ reg' = [reg EXCEPT ![c].clean = FALSE]
    /\ cloc' = [cloc EXCEPT ![c] = [HandlerLocals0 EXCEPT !.handled = cloc[c].handled]]
    /\ UNCHANGED mainVars
    /\ UNCHANGED <<sensors, stream_frequency, stream_interval, client_counter,
                   session_data, running, cur, bpc, bloc, stalled, delivered>>

\* the message iterator ends on a closed connection: finally clause
HandlerExit(c) ==
    /\ cur = "none"
    /\ cpc[c] = "recv"
    /\ ~copen[c]
    /\ subscribers' = HandlerFinally(subscribers, c)
    /\ cpc' = [cpc EXCEPT ![c] = "done"]
    /\ UNCHANGED mainVars
    /\ UNCHANGED <<sensors, stream_frequency, stream_interval, client_counter,
                   session_data, running, cur, bpc, bloc, cloc, copen, stalled,
                   delivered, reg>>

\* environment: the peer closes or the network drops the connection
Drop(c) ==
    /\ cur = "none"
    /\ copen[c]
    /\ copen' = [copen EXCEPT ![c] = FALSE]
    /\ UNCHANGED mainVars
    /\ UNCHANGED <<sensors, stream_frequency, stream_interval, subscribers,
                   client_counter, session_data, running, cur, bpc, bloc, cpc,
                   cloc, stalled, delivered, reg>>

\* environment: the peer stops reading; sends to it no longer complete
\* (only a send in flight can tell: the step is taken when one is)
Stall(c) ==
    /\ cur = "none"
    /\ cpc[c] = "respond" \/ (bpc = "sending" /\ bloc.target = c)
    /\ copen[c]
    /\ c \notin stalled
    /\ stalled' = stalled \cup {c}
    /\ UNCHANGED mainVars
    /\ UNCHANGED <<sensors, stream_frequency, stream_interval, subscribers,
                   client_counter, session_data, running, cur, bpc, bloc, cpc,
                   cloc, copen, delivered, reg>>

(* ---------------------------------------------------------------------- *)
(* biofeedback_server.py: broadcast_to_subscribers                        *)
(* ---------------------------------------------------------------------- *)
\* a loop body without the registry test
RegistryNonEmpty_always == TRUE

\* if self.subscribers:
RegistryNonEmpty == subscribers # {}

\* the task is first scheduled, or asyncio.sleep(stream_interval) returns
BcWake ==
    /\ cur = "none"
    /\ bpc \in {"start", "sleep"}
    /\ subscribers = {} \/ TickAllowed
    /\ bpc' = "check"
    /\ cur' = "bc"
    /\ UNCHANGED mainVars
    /\ UNCHANGED <<sensors, stream_frequency, stream_interval, subscribers,
                   client_counter, session_data, running, bloc, cpc, cloc, copen,
                   stalled, delivered, reg>>

\* while self.running: if self.subscribers: -- empty registry: straight to
\* the sleep at the end of the loop body
BcCheckEmpty ==
    /\ cur = "bc"
    /\ bpc = "check"
    /\ running
    /\ ~RegistryNonEmpty
    /\ bpc' = "sleep"
    /\ cur' = "none"
    /\ UNCHANGED mainVars
    /\ UNCHANGED <<sensors, stream_frequency, stream_interval, subscribers,
                   client_counter, session_data, running, bloc, cpc, cloc, copen,
                   stalled, delivered, reg>>

\* non-empty registry: generate_biofeedback_sample is entered, connector.read()
BcRead ==
    /\ cur = "bc"
    /\ bpc = "check"
    /\ running
    /\ RegistryNonEmpty
    /\ LET rd == SimRead(sensors)
       IN /\ sensors' = rd.state
          /\ bloc' = [bloc EXCEPT !.hr = rd.hr, !.eda = rd.eda, !.hrv = rd.hrv,
                                  !.entry = TickEntry]
    /\ bpc' = "tick_baseline"
    /\ cur' = TickHolds("bc")
    /\ UNCHANGED mainVars
    /\ UNCHANGED <<stream_frequency, stream_interval, subscribers, client_counter,
                   session_data, running, cpc, cloc, copen, stalled, delivered, reg>>

\* the baseline block of the broadcaster's tick; nothing in the loop catches
\* an exception of the tick: it ends the broadcaster task
BcBaseline ==
    /\ cur \in {"bc", "none"}
    /\ bpc = "tick_baseline"
    /\ LET bb == BaselineBlock(sensors, bloc.hr, bloc.eda, bloc.hrv)
       IN /\ sensors' = bb.state
          /\ IF bb.raised
             THEN /\ bpc' = "dead"
                  /\ cur' = "none"
             ELSE /\ bpc' = "tick_commit"
                  /\ cur' = TickHolds("bc")
    /\ UNCHANGED mainVars
    /\ UNCHANGED <<stream_frequency, stream_interval, subscribers, client_counter,
                   session_data, running, bloc, cpc, cloc, copen, stalled,
                   delivered, reg>>

\* the rest of the broadcaster's tick
BcCommit ==
    /\ cur \in {"bc", "none"}
    /\ bpc = "tick_commit"
    /\ LET sample == MakeSample(sensors, bloc.hr, bloc.eda, bloc.hrv)
       IN /\ sensors' = advance_time(sensors, stream_interval)
          /\ session_data' = Append(session_data, sample)
          /\ bloc' = [bloc EXCEPT !.sample = sample]
    /\ bpc' = "fanout"
    /\ cur' = "bc"
    /\ UNCHANGED mainVars
    /\ UNCHANGED <<stream_frequency, stream_interval, subscribers, client_counter,
                   running, cpc, cloc, copen, stalled, delivered, reg>>

\* the stream message with its server_info
StreamMessage(sample) ==
    Msg("stream", sample, "", <<stream_frequency, Cardinality(subscribers)>>)

\* the loop over self.subscribers.copy() goes on after a send: the next
\* connection of the snapshot is sent to, or the loop is over
NextSend(loc) ==
    IF loc.todo = {}
    THEN {[pc |-> "prune", loc |-> [loc EXCEPT !.target = "none"]]}
    ELSE {[pc |-> "sending", loc |-> [loc EXCEPT !.target = w, !.todo = @ \ {w}]]
            : w \in loc.todo}

\* a pass over every open connection, subscribed or not
RegistrySnapshot_connected == {c \in Conns : copen[c]}

\* self.subscribers.copy()
RegistrySnapshot == subscribers

\* the message is serialized once, the registry is copied, the first send
\* is awaited (a set is iterated in no particular order)
BcFanout ==
    /\ cur = "bc"
    /\ bpc = "fanout"
    /\ \E n \in NextSend([bloc EXCEPT !.message = StreamMessage(bloc.sample),
                                      !.snapshot = RegistrySnapshot,
                                      !.todo = RegistrySnapshot,
                                      !.disconnected_clients = {},
                                      !.sent_ok = {},
                                      !.send_failed = {}]) :
          /\ bloc' = n.loc
          /\ bpc' = n.pc
          /\ cur' = IF n.pc = "sending" THEN "none" ELSE "bc"
    /\ UNCHANGED mainVars
    /\ UNCHANGED <<sensors, stream_frequency, stream_interval, subscribers,
                   client_counter, session_data, running, cpc, cloc, copen,
                   stalled, delivered, reg>>

\* what websocket.send is given in the loop: the string serialized once
\* before the loop
SentMessage(loc) == loc.message

\* the awaited send completes: the subscriber has the message
BcSendOk ==
    /\ cur = "none"
    /\ bpc = "sending"
    /\ copen[bloc.target]
    /\ bloc.target \notin stalled
    /\ delivered' = [delivered EXCEPT ![bloc.target] = SentMessage(bloc)]
    /\ \E n \in NextSend([bloc EXCEPT !.sent_ok = @ \cup
                              {[conn |-> bloc.target, message |-> SentMessage(bloc)]}]) :
          /\ bloc' = n.loc
          /\ bpc' = n.pc
          /\ cur' = IF n.pc = "sending" THEN "none" ELSE "bc"
    /\ UNCHANGED mainVars
    /\ UNCHANGED <<sensors, stream_frequency, stream_interval, subscribers,
                   client_counter, session_data, running, cpc, cloc, copen,
                   stalled, reg>>

\* an except clause that only logs the failure
OnSendFailure_lost(loc) == loc

\* what the two except clauses of the send do with the failed connection
OnSendFailure(loc) ==
    [loc EXCEPT !.disconnected_clients = @ \cup {loc.target}]

\* the awaited send raises: ConnectionClosed when the transport is closed,
\* or some other exception on a connection that stays open
BcSendFail ==
    /\ cur = "none"
    /\ bpc = "sending"
    /\ reg' = [reg EXCEPT ![bloc.target].clean = FALSE]
    /\ \E n \in NextSend([OnSendFailure(bloc) EXCEPT !.send_failed = @ \cup {bloc.target}]) :
          /\ bloc' = n.loc
          /\ bpc' = n.pc
          /\ cur' = IF n.pc = "sending" THEN "none" ELSE "bc"
    /\ UNCHANGED mainVars
    /\ UNCHANGED <<sensors, stream_frequency, stream_interval, subscribers,
                   client_counter, session_data, running, cpc, cloc, copen,
                   stalled, delivered>>

\* the connections the prune loop discards
Pruned(loc) == loc.disconnected_clients

\* "Remove disconnected clients", then await asyncio.sleep(stream_interval)
BcPrune ==
    /\ cur = "bc"
    /\ bpc = "prune"
    /\ subscribers' = subscribers \ Pruned(bloc)
    /\ bloc' = BcLocals0
    /\ bpc' = "sleep"
    /\ cur' = "none"
    /\ UNCHANGED mainVars
    /\ UNCHANGED <<sensors, stream_frequency, stream_interval, client_counter,
                   session_data, running, cpc, cloc, copen, stalled,
                   delivered, reg>>

(* ---------------------------------------------------------------------- *)
(* The server                                                             *)
(* ---------------------------------------------------------------------- *)
Next ==
    \/ StartServer
    \/ \E c \in Conns : Connect(c)
    \/ \E c \in Conns, req \in StreamRequests : HandleCommand(c, req)
    \/ \E c \in Conns : OnceRead(c)
    \/ \E c \in Conns : OnceBaseline(c)
    \/ \E c \in Conns : OnceCommit(c)
    \/ \E c \in Conns : RespondOk(c)
    \/ \E c \in Conns : RespondFail(c)
    \/ \E c \in Conns : HandlerExit(c)
    \/ \E c \in Conns : Drop(c)
    \/ \E c \in Conns : Stall(c)
    \/ BcWake
    \/ BcCheckEmpty
    \/ BcRead
    \/ BcBaseline
    \/ BcCommit
    \/ BcFanout
    \/ BcSendOk
    \/ BcSendFail
    \/ BcPrune

Spec == Init /\ [][Next]_vars

(* ---------------------------------------------------------------------- *)
(* The sensors module driven directly: the functions of sensors.py and    *)
(* generate_biofeedback_sample called one after the other, as the unit    *)
(* tests do, on a server that was never started                           *)
(* ---------------------------------------------------------------------- *)
\* time deltas _advance_time is called with
AdvanceInputs == {Sec(185)}

\* (hr, eda, hrv) collect_baseline_sample is called with
CollectInputs == {<<750, 2000, 500>>}

\* server.generate_biofeedback_sample() called directly: the whole tick
Tick ==
    /\ \E r \in {generate_biofeedback_sample(sensors, stream_interval)} :
          /\ sensors' = r.state
          /\ session_data' = IF r.raised THEN session_data
                                         ELSE Append(session_data, r.sample)
    /\ UNCHANGED serverVars

\* (a tick that collects is explored on a store of fewer than MaxLog samples)
ApiTick ==
    /\ TickAllowed
    /\ should_collect_baseline_sample(sensors) => Len(sensors.baseline_samples) < MaxLog
    /\ Tick

ApiAdvance(dt) ==
    /\ sensors.current_time < Sec(MaxTime)
    /\ sensors' = advance_time(sensors, dt)
    /\ UNCHANGED <<session_data, serverVars>>

\* (called inside the baseline window, as the protocol's callers do)
ApiCollect(v) ==
    /\ Len(sensors.baseline_samples) < MaxSamples
    /\ is_in_baseline_window(sensors)
    /\ sensors' = collect_baseline_sample(sensors, v[1], v[2], v[3])
    /\ UNCHANGED <<session_data, serverVars>>

ApiCompute ==
    /\ sensors' = compute_baseline_values(sensors).state
    /\ UNCHANGED <<session_data, serverVars>>

ApiReset ==
    /\ sensors' = reset_baseline_protocol(sensors)
    /\ UNCHANGED <<session_data, serverVars>>

\* the scenario of a run: the module's default, or one chosen with
\* set_scenario right after import
RunScenarios == {"mixed", "baseline"}

SensorsInit ==
    /\ \E seed \in Seeds : \E name \in RunScenarios :
          sensors = set_scenario(ImportedSensors(seed), name).state
    /\ ServerInit

SensorsNext ==
    \/ ApiTick
    \/ \E dt \in AdvanceInputs : ApiAdvance(dt)
    \/ \E v \in CollectInputs : ApiCollect(v)
    \/ ApiCompute
    \/ ApiReset

SpecSensors == SensorsInit /\ [][SensorsNext]_vars

(* ---------------------------------------------------------------------- *)
(* The phases of the baseline protocol: the clock is advanced to the      *)
(* seconds around the ends of the phases, samples are collected and       *)
(* computed                                                               *)
(* ---------------------------------------------------------------------- *)
PhaseAdvanceInputs == {Sec(60), Sec(179)}

PhaseNext ==
    \/ \E dt \in PhaseAdvanceInputs : ApiAdvance(dt)
    \/ \E v \in CollectInputs : ApiCollect(v)
    \/ ApiCompute
    \/ ApiReset

PhaseSpec == SensorsInit /\ [][PhaseNext]_vars

(* ---------------------------------------------------------------------- *)
(* Ticks that keep occurring from a reset protocol, at a stream interval  *)
(* of at most 6 s (ten or more ticks fall into the baseline window)       *)
(* ---------------------------------------------------------------------- *)
LiveFrequencies == {167, 200, 1000}

LiveInit ==
    /\ \E seed \in Seeds : sensors = reset_baseline_protocol(ImportedSensors(seed))
    /\ \E f \in LiveFrequencies : Constructed(f)

LiveTick ==
    /\ sensors.current_time < Sec(MaxTime)
    /\ Len(sensors.baseline_samples) < MaxSamples
    /\ Tick

LiveSpec == LiveInit /\ [][LiveTick]_vars /\ WF_vars(LiveTick)

(* ---------------------------------------------------------------------- *)
(* The command handlers: connections send any of the requests while the   *)
(* broadcaster task is waiting to be scheduled                            *)
(* ---------------------------------------------------------------------- *)
\* (one connection sends every kind of request, the other one the
\* registry commands)
RequestsOf(c) == IF c = "c1" THEN Requests ELSE StreamRequests

CmdNext ==
    \/ StartServer
    \/ \E c \in Conns : Connect(c)
    \/ \E c \in Conns : \E req \in RequestsOf(c) : HandleCommand(c, req)
    \/ OnceRead("c1")
    \/ \E c \in Conns : OnceBaseline(c)
    \/ \E c \in Conns : OnceCommit(c)
    \/ \E c \in Conns : RespondOk(c)

CmdSpec == Init /\ [][CmdNext]_vars

(* ---------------------------------------------------------------------- *)
(* Ticks of the built-in simulator in every scenario, at the times the     *)
(* scenario phases begin and end, from both parities of the generator     *)
(* ---------------------------------------------------------------------- *)
RangeSeeds == {0, 1}

RangeAdvanceInputs == {Sec(15), Sec(185)}

RangeInit ==
    /\ \E seed \in RangeSeeds : \E name \in ValidScenarios :
          sensors = set_scenario(ImportedSensors(seed), name).state
    /\ ServerInit

RangeNext ==
    \/ ApiTick
    \/ \E dt \in RangeAdvanceInputs : ApiAdvance(dt)

RangeSpec == RangeInit /\ [][RangeNext]_vars

(* ---------------------------------------------------------------------- *)
(* The HR history under direct get_hr() calls, ticks, clock advances and  *)
(* protocol resets                                                         *)
(* ---------------------------------------------------------------------- *)
\* sensors.get_hr() called directly (explored before the first tick)
ApiGetHr ==
    /\ session_data = << >>
    /\ sensors.baseline_samples = << >>
    /\ sensors' = get_hr(sensors)
    /\ UNCHANGED <<session_data, serverVars>>

\* reset_baseline_protocol() called directly (explored before the first tick)
ApiResetEarly ==
    /\ session_data = << >>
    /\ sensors.baseline_samples = << >>
    /\ ApiReset

HrNext ==
    \/ ApiGetHr
    \/ ApiTick
    \/ \E dt \in AdvanceInputs : ApiAdvance(dt)
    \/ ApiResetEarly

HrSpec == SensorsInit /\ [][HrNext]_vars

(* ---------------------------------------------------------------------- *)
(* biofeedback_server.py: the shutdown path.  start_server's finally      *)
(* cancels the broadcaster and awaits stop_server; main's finally awaits  *)
(* stop_server once more.  Handlers keep running at stop_server's awaits. *)
(* ---------------------------------------------------------------------- *)
ShutdownMessage == Msg("server_shutdown", NoSample, "Server is shutting down", << >>)

\* after the loop: the session artifact (only for a non-empty log; open()
\* or json.dump may raise, which is logged), connector.close(), return
StopReturn(loc) ==
    /\ mloc' = [loc EXCEPT !.target = "none"]
    /\ mpc' = IF loc.call = 1 THEN "returned" ELSE "exit"
    /\ saved' \in (IF session_data = << >>
                   THEN {saved}
                   ELSE {saved, Append(saved, session_data)})
    /\ connector_closes' = connector_closes + 1

\* for websocket in self.subscribers.copy(): the next connection of the
\* snapshot is sent the message, or the loop is over
StopLoop(loc) ==
    \/ /\ loc.todo = {}
       /\ StopReturn(loc)
    \/ /\ \E w \in loc.todo :
             mloc' = [loc EXCEPT !.target = w, !.todo = @ \ {w}]
       /\ mpc' = "notify_send"
       /\ UNCHANGED <<saved, connector_closes>>

\* stop_server is entered (call 1 from start_server's finally, after
\* broadcast_task.cancel(); call 2 from main's finally): running = False,
\* if self.subscribers: the registry is copied and the first send awaited
StopServer(call) ==
    /\ cur = "none"
    /\ \/ call = 1 /\ mpc = "main" /\ running
       \/ call = 2 /\ mpc = "returned"
    /\ bpc' = IF call = 1 /\ bpc \notin {"off", "dead"} THEN "cancelled" ELSE bpc
    /\ running' = FALSE
    /\ StopLoop([StopLocals0 EXCEPT !.call = call,
                                    !.snapshot = subscribers,
                                    !.todo = subscribers])
    /\ UNCHANGED <<sensors, stream_frequency, stream_interval, subscribers,
                   client_counter, session_data, cur, bloc, cpc, cloc, copen,
                   stalled, delivered, reg, wire>>

\* await websocket.send(shutdown_message) completes; websocket.close() is
\* awaited next
StopSendOk ==
    /\ cur = "none"
    /\ mpc = "notify_send"
    /\ copen[mloc.target]
    /\ mloc.target \notin stalled
    /\ delivered' = [delivered EXCEPT ![mloc.target] = ShutdownMessage]
    /\ wire' = [wire EXCEPT ![mloc.target] = Append(@, "server_shutdown")]
    /\ mpc' = "notify_close"
    /\ UNCHANGED <<sensors, stream_frequency, stream_interval, subscribers,
                   client_counter, session_data, running, cur, bpc, bloc, cpc,
                   cloc, copen, stalled, reg, mloc, saved, connector_closes>>

\* a bare except that lets the exception end the loop
OnNotifyFailure_abort(loc) == [loc EXCEPT !.failed = @ \cup {loc.target}, !.todo = {}]

\* except: pass -- the loop goes on with the next connection
OnNotifyFailure(loc) == [loc EXCEPT !.failed = @ \cup {loc.target}]

\* await websocket.send(shutdown_message) raises (ConnectionClosed on a
\* closed transport, or another exception): the close is skipped
StopSendFail ==
    /\ cur = "none"
    /\ mpc = "notify_send"
    /\ StopLoop(OnNotifyFailure(mloc))
    /\ UNCHANGED <<sensors, stream_frequency, stream_interval, subscribers,
                   client_counter, session_data, running, cur, bpc, bloc, cpc,
                   cloc, copen, stalled, delivered, reg, wire>>

\* await websocket.close() returns: the connection is closed
StopClose ==
    /\ cur = "none"
    /\ mpc = "notify_close"
    /\ copen' = [copen EXCEPT ![mloc.target] = FALSE]
    /\ wire' = [wire EXCEPT ![mloc.target] = Append(@, "close")]
    /\ StopLoop(mloc)
    /\ UNCHANGED <<sensors, stream_frequency, stream_interval, subscribers,
                   client_counter, session_data, running, cur, bpc, bloc, cpc,
                   cloc, stalled, delivered, reg>>

StopNext ==
    \/ StartServer
    \/ \E c \in Conns : Connect(c)
    \/ \E c \in Conns, req \in StreamRequests : HandleCommand(c, req)
    \/ OnceRead("c1")
    \/ OnceBaseline("c1")
    \/ OnceCommit("c1")
    \/ \E c \in Conns : RespondOk(c)
    \/ \E c \in Conns : RespondFail(c)
    \/ \E c \in Conns : HandlerExit(c)
    \/ \E c \in Conns : Drop(c)
    \/ \E call \in {1, 2} : StopServer(call)
    \/ StopSendOk
    \/ StopSendFail
    \/ StopClose

StopSpec == Init /\ [][StopNext]_vars

(* ---------------------------------------------------------------------- *)
(* Properties                                                             *)
(* ---------------------------------------------------------------------- *)
Tasks == Conns \cup {"bc"}

TickPc(task) == IF task = "bc" THEN bpc ELSE cpc[task]

TickLoc(task) == IF task = "bc" THEN bloc ELSE cloc[task]

\* the step with which a task leaves the tick it was executing
LeavesTick(task) == InTick(TickPc(task)) /\ ~InTick(TickPc(task))'

\* a step of the broadcaster task
BroadcasterStep == bpc' # bpc \/ bloc' # bloc

\* the step in which the handler of c takes a request and runs
\* handle_client_message on it
HandleStep(c) == cloc'[c].handled = cloc[c].handled + 1

\* C1: every tick, by `once` or by the broadcaster, has each of its side
\* effects exactly once when it is left: one HR value pushed to the
\* history, at most one baseline sample collected, the clock advanced by
\* the stream interval once, one Sample appended to the session log.
C1_TickEffectsOnce ==
    [][\A task \in Tasks :
          LeavesTick(task) =>
             LET entry == TickLoc(task).entry
             IN /\ sensors'.hr_history = PushHistory(entry[2], TickLoc(task).hr)
                /\ Len(sensors'.baseline_samples) - entry[3] \in {0, 1}
                /\ sensors'.current_time = entry[1] + stream_interval
                /\ Len(session_data') = entry[4] + 1]_vars

\* C2: `once` has no precondition: whenever the handler has finished a
\* `once` command, its response has type `sample` and carries the Sample
\* that its tick appended to the session log.
C2_OnceAnswersSample ==
    \A c \in Conns :
       (cpc[c] = "respond" /\ cloc[c].command = "once") =>
          /\ cloc[c].response.type = "sample"
          /\ Len(session_data) > cloc[c].entry[4]
          /\ cloc[c].response.data = session_data[cloc[c].entry[4] + 1]

\* C3: while the server is running the broadcaster loop never terminates.
C3_BroadcasterNeverEnds == running => bpc # "dead"

\* C4: from a reset protocol, with ticks that keep occurring at an interval
\* that puts ten or more of them into [180 s, 240 s), computed eventually
\* becomes true and the protocol reaches COMPLETE: once ten ticks of the
\* window have collected their samples the baseline is computed, and the
\* run gets to computed = true and to COMPLETE.
C4_EventuallyComplete ==
    /\ [](Len(sensors.baseline_samples) >= MinBaselineSamples
             => sensors.baseline_computed)
    /\ <>(sensors.baseline_computed)
    /\ <>(is_baseline_protocol_complete(sensors))

\* C5: computed = true implies that at least 10 baseline samples are
\* stored; computed goes from false to true only by compute_baseline_values
\* on at least 10 samples, and from true to false only by
\* reset_baseline_protocol.
C5_ComputedDiscipline ==
    /\ [](sensors.baseline_computed => Len(sensors.baseline_samples) >= 10)
    /\ [][/\ (~sensors.baseline_computed /\ sensors'.baseline_computed) =>
                /\ Len(sensors.baseline_samples) >= 10
                /\ sensors' = compute_baseline_values(sensors).state
          /\ (sensors.baseline_computed /\ ~sensors'.baseline_computed) =>
                sensors' = reset_baseline_protocol(sensors)]_vars

\* C5 witness: the baseline has been computed from a full store.
C5_Witness ==
    /\ sensors.baseline_computed
    /\ Len(sensors.baseline_samples) >= 10
    /\ sensors.current_time > 0

\* C6: in one broadcast pass every subscriber whose send succeeds gets the
\* same serialized message; a failed send does not keep any other
\* subscriber of the snapshot from being sent to; the pass changes the
\* registry only in its prune step, after the last send, and that step
\* removes exactly the subscribers whose send failed.
C6_FanOutPass ==
    /\ [](\A x, y \in bloc.sent_ok : x.message = y.message)
    /\ [](bpc = "prune" =>
            {x.conn : x \in bloc.sent_ok} \cup bloc.send_failed = bloc.snapshot)
    /\ [][BroadcasterStep =>
            IF bpc = "prune"
            THEN subscribers' = subscribers \ bloc.send_failed
            ELSE subscribers' = subscribers]_vars

\* C6 witness: a pass over two subscribers is about to prune, one send
\* failed and the other subscriber has the message.
C6_Witness ==
    /\ bpc = "prune"
    /\ Cardinality(bloc.snapshot) = 2
    /\ Cardinality(bloc.send_failed) = 1
    /\ Cardinality(bloc.sent_ok) = 1

\* C7: a send that stalls does not block the delivery to the others:
\* while the send in flight is to a stalled subscriber, no other
\* subscriber of the snapshot is still waiting for its send.
C7_StallDoesNotBlock ==
    (bpc = "sending" /\ bloc.target \in stalled /\ copen[bloc.target]) =>
       bloc.todo = {}

\* C8: ticks are mutually exclusive: at no time are two tasks inside a
\* tick, and while a task is inside a tick only that task's own steps
\* change the sensors state or the session log.
C8_TickMutex ==
    /\ [](Cardinality({task \in Tasks : InTick(TickPc(task))}) <= 1)
    /\ [][\A task \in Tasks :
            (InTick(TickPc(task)) /\ TickPc(task)' = TickPc(task)) =>
               (sensors' = sensors /\ session_data' = session_data)]_vars

\* C8 witness: a connection task is inside a tick while the broadcaster's
\* timer is pending with a non-empty registry and another connection is
\* waiting for commands.
C8_Witness ==
    \E c, d \in Conns :
       /\ c # d
       /\ InTick(cpc[c])
       /\ cpc[d] = "recv"
       /\ bpc = "sleep"
       /\ subscribers # {}

\* C9: a broadcaster cycle performs exactly one tick when the registry is
\* non-empty at its start and none when it is empty: the check of a cycle
\* enters the tick iff the registry is non-empty, with an empty registry
\* it leaves clock, baseline samples and session log alone and goes to the
\* sleep, and the next check only follows a sleep.
C9_OneTickPerCycle ==
    [][BroadcasterStep =>
         /\ bpc = "check" =>
               IF subscribers = {}
               THEN bpc' = "sleep" /\ sensors' = sensors /\ session_data' = session_data
               ELSE bpc' = "tick_baseline"
         /\ bpc' = "tick_baseline" => (bpc = "check" /\ subscribers # {})
         /\ bpc' = "check" => bpc \in {"start", "sleep"}
         /\ bpc \notin {"check", "tick_baseline", "tick_commit"} =>
               (sensors' = sensors /\ session_data' = session_data)]_vars

\* C9 witness: the broadcaster sleeps after a check that found the
\* registry empty, nothing was generated.
C9_Witness ==
    /\ bpc = "sleep"
    /\ subscribers = {}
    /\ session_data = << >>
    /\ \E c \in Conns : cpc[c] = "recv"

\* C10: no registry add or remove is lost: an open connection whose last
\* registry command was a confirmed subscribe, with no failed send since,
\* is a member; one whose last registry command was unsubscribe is not.
C10_NoLostRegistryUpdate ==
    \A c \in Conns :
       /\ (copen[c] /\ cpc[c] = "recv" /\ reg[c].last = "subscribe" /\ reg[c].clean)
             => c \in subscribers
       /\ reg[c].last = "unsubscribe" => c \notin subscribers

\* C11: `subscribe` makes the calling connection a member and answers
\* subscription_confirmed, `unsubscribe` makes it a non-member and answers
\* unsubscription_confirmed; membership is by identity: nobody else's
\* membership changes, subscribing a member leaves the size of the registry
\* unchanged, unsubscribing a non-member leaves the registry unchanged.
C11_SubscribeUnsubscribe ==
    [][\A c \in Conns :
          HandleStep(c) =>
             /\ cloc'[c].command = "subscribe" =>
                   /\ c \in subscribers'
                   /\ cloc'[c].response.type = "subscription_confirmed"
                   /\ subscribers' \ {c} = subscribers \ {c}
                   /\ c \in subscribers =>
                         Cardinality(subscribers') = Cardinality(subscribers)
             /\ cloc'[c].command = "unsubscribe" =>
                   /\ c \notin subscribers'
                   /\ cloc'[c].response.type = "unsubscription_confirmed"
                   /\ subscribers' \ {c} = subscribers \ {c}
                   /\ c \notin subscribers => subscribers' = subscribers]_vars

\* C11 witness: a connection that was the only member has subscribed a
\* second time, or a non-member has been confirmed its unsubscribe while
\* the other connection stays a member.
C11_Witness ==
    \E c, d \in Conns :
       /\ c # d
       /\ cpc[c] = "respond"
       /\ \/ /\ cloc[c].command = "subscribe"
             /\ cloc[c].response.type = "subscription_confirmed"
             /\ client_counter = 2
             /\ cloc[d].handled = 0
             /\ subscribers = {c}
          \/ /\ cloc[c].command = "unsubscribe"
             /\ cloc[c].response.type = "unsubscription_confirmed"
             /\ reg[c].last = "unsubscribe"
             /\ cloc[c].handled = 1
             /\ subscribers = {d}

\* an hz that set_frequency has to reject: not a number, or a number
\* outside [0.1, 50.0]
Rejectable(hz) ==
    \/ hz.kind \in {"str", "null", "nan"}
    \/ hz.kind \in {"num", "numstr"} /\ (hz.val < MinFrequency \/ hz.val > MaxFrequency)

\* C12: a set_frequency whose hz is non-numeric or outside [0.1, 50.0]
\* leaves stream_frequency and stream_interval unchanged and is answered
\* with an error that names the rejected value and reports the unchanged
\* current frequency.
C12_BadFrequencyRejected ==
    [][\A c \in Conns : \A hz \in HzInputs :
          (Rejectable(hz) /\ HandleCommand(c, Req("set_frequency", hz, ""))) =>
             /\ stream_frequency' = stream_frequency
             /\ stream_interval' = stream_interval
             /\ cloc'[c].response.type = "error"
             /\ cloc'[c].response.info[1] =
                   (IF hz.kind \in {"num", "numstr"} THEN hz.val ELSE hz)
             /\ cloc'[c].response.info[2] = stream_frequency]_vars

\* C13: a set_frequency with a numeric hz in [0.1, 50.0] sets
\* stream_frequency to hz and stream_interval to exactly 1/hz and answers
\* frequency_changed with the old and the new frequency; a status response
\* reports the current frequency, which only a set_frequency answered with
\* frequency_changed changes.
C13_FrequencyChanged ==
    [][/\ \A c \in Conns : \A hz \in HzInputs :
             (/\ hz.kind \in {"num", "numstr"}
              /\ ~Rejectable(hz)
              /\ HandleCommand(c, Req("set_frequency", hz, ""))) =>
                /\ stream_frequency' = hz.val
                /\ stream_interval' * hz.val = 1000 * TimeUnit
                /\ cloc'[c].response.type = "frequency_changed"
                /\ cloc'[c].response.info =
                      <<stream_frequency, hz.val, stream_interval'>>
       /\ \A c \in Conns :
             HandleCommand(c, Req("status", NoHz, "")) =>
                /\ cloc'[c].response.type = "status"
                /\ cloc'[c].response.info[3] = stream_frequency
                /\ stream_frequency' = stream_frequency
       /\ stream_frequency' # stream_frequency =>
             \E c \in Conns :
                /\ HandleStep(c)
                /\ cloc'[c].command = "set_frequency"
                /\ cloc'[c].response.type = "frequency_changed"]_vars

\* C13 witness: after a set_frequency with hz = 1.0 on a server that had
\* the default frequency, a status response reports 1.0 Hz and the
\* interval is 1 s.
C13_Witness ==
    \E c \in Conns :
       /\ cpc[c] = "respond"
       /\ cloc[c].command = "status"
       /\ cloc[c].response.info[3] = 1000
       /\ stream_frequency = 1000
       /\ stream_interval = TimeUnit

\* C14: in every state reachable from a server constructed with defaults
\* by client commands, stream_frequency lies in [0.1, 50.0] and
\* stream_interval equals 1/stream_frequency.
C14_FrequencyInvariant ==
    /\ FloatLess(stream_frequency, MaxFrequency + 1)
    /\ FloatLess(MinFrequency - 1, stream_frequency)
    /\ stream_interval # NaN
    /\ stream_interval * stream_frequency = 1000 * TimeUnit

\* C15: a scenario name that is not one of baseline, stress_buildup,
\* recovery, mixed leaves the current scenario unchanged: the server
\* answers an error listing the 4 valid names, sensors.set_scenario raises
\* ValueError.
C15_InvalidScenario ==
    /\ [](\A sc \in ScenarioInputs :
            sc \notin {"baseline", "stress_buildup", "recovery", "mixed"} =>
               /\ set_scenario(sensors, sc).raised
               /\ set_scenario(sensors, sc).state = sensors)
    /\ [][\A c \in Conns : \A sc \in ScenarioInputs :
            (/\ sc \notin {"baseline", "stress_buildup", "recovery", "mixed"}
             /\ HandleCommand(c, Req("set_scenario", NoHz, sc))) =>
               /\ sensors' = sensors
               /\ cloc'[c].response.type = "error"
               /\ Len(cloc'[c].response.info) = 4
               /\ {cloc'[c].response.info[i] : i \in 1..4} =
                     {"baseline", "stress_buildup", "recovery", "mixed"}]_vars

\* C15 witness: an unknown scenario name has been answered with the error
\* while the scenario set before is still current.
C15_Witness ==
    \E c \in Conns :
       /\ cpc[c] = "respond"
       /\ cloc[c].command = "set_scenario"
       /\ cloc[c].response.type = "error"
       /\ sensors.scenario = "recovery"

\* C16: a set_scenario with a valid name s sets the current scenario to s
\* and answers scenario_changed with current_scenario = s; the scenario
\* changes only by such a command, and every Sample a tick produces
\* carries the scenario that is current.
C16_ScenarioChanged ==
    [][/\ \A c \in Conns : \A sc \in ScenarioInputs :
             (/\ sc \in {"baseline", "stress_buildup", "recovery", "mixed"}
              /\ HandleCommand(c, Req("set_scenario", NoHz, sc))) =>
                /\ sensors'.scenario = sc
                /\ cloc'[c].response.type = "scenario_changed"
                /\ cloc'[c].response.detail = sc
       /\ sensors'.scenario # sensors.scenario =>
             \E c \in Conns :
                /\ HandleStep(c)
                /\ cloc'[c].command = "set_scenario"
                /\ cloc'[c].response.type = "scenario_changed"
       /\ session_data' # session_data =>
             /\ Len(session_data') = Len(session_data) + 1
             /\ session_data'[Len(session_data')].scenario = sensors.scenario
             /\ sensors'.scenario = sensors.scenario]_vars

\* C16 witness: after a change to recovery a `once` has produced a Sample
\* labelled recovery.
C16_Witness ==
    \E c \in Conns :
       /\ cpc[c] = "respond"
       /\ cloc[c].command = "once"
       /\ cloc[c].response.type = "sample"
       /\ cloc[c].response.data.scenario = "recovery"
       /\ sensors.scenario = "recovery"

\* C17: a request that is not decodable JSON, is not a JSON object, has no
\* command field or names an unknown command is answered with an error
\* and mutates no shared state: clock, scenario, HR history, baseline
\* state, session log, registry and frequency settings are unchanged.
C17_MalformedRequest ==
    [][\A c \in Conns : \A k \in {"notjson", "notobject", "", "bogus"} :
          HandleCommand(c, Req(k, NoHz, "")) =>
             /\ cloc'[c].response.type = "error"
             /\ sensors' = sensors
             /\ session_data' = session_data
             /\ subscribers' = subscribers
             /\ stream_frequency' = stream_frequency
             /\ stream_interval' = stream_interval]_vars

\* C17 witness: a request without a command field has been answered with
\* the error on a server with a subscriber and a changed scenario.
C17_Witness ==
    \E c \in Conns :
       /\ cpc[c] = "respond"
       /\ cloc[c].command = ""
       /\ cloc[c].response.type = "error"
       /\ subscribers # {}
       /\ sensors.scenario = "recovery"

\* C18: starting fresh with a fixed stream interval, after n `once`
\* commands virtual time is exactly n times the stream interval, and each
\* returned Sample carries the scenario that was current: virtual time is
\* the stream interval times the number of Samples returned, and every
\* `once` returns one more Sample, labelled with the current scenario, and
\* adds one stream interval to virtual time.
C18_TimeIsTicksTimesInterval ==
    /\ [](sensors.current_time = Len(session_data) * stream_interval)
    /\ [][/\ sensors'.current_time = sensors.current_time + stream_interval
          /\ Len(session_data') = Len(session_data) + 1
          /\ session_data'[Len(session_data')].scenario = sensors.scenario]_vars

\* what the simulation owns besides the scenario: clock, HR history,
\* baseline state; and the session log
SimulationState ==
    <<sensors.current_time, sensors.hr_history, sensors.baseline_computed,
      sensors.baseline_hr, sensors.baseline_eda, sensors.baseline_hrv,
      sensors.baseline_samples, session_data>>

\* C19: virtual time is non-decreasing over every sequence of server
\* operations and changes only inside a tick; subscribe, unsubscribe,
\* status, set_frequency and set_scenario leave the clock, the HR history,
\* the baseline state and the session log unchanged.
C19_ClockOnlyByTick ==
    [][/\ \/ sensors'.current_time = sensors.current_time
          \/ FloatLess(sensors.current_time, sensors'.current_time)
       /\ sensors'.current_time # sensors.current_time =>
             \E task \in Tasks : LeavesTick(task)
       /\ \A c \in Conns :
             (/\ HandleStep(c)
              /\ Lower(cloc'[c].command) \in {"subscribe", "unsubscribe", "status",
                                               "set_frequency", "set_scenario"}) =>
                SimulationState' = SimulationState]_vars

\* C20: compute_baseline_values called with fewer than 10 collected
\* samples returns false and changes nothing: computed stays false and
\* baseline_hr, baseline_eda, baseline_hrv and the sample list are as
\* they were.
C20_ComputeNeedsTenSamples ==
    /\ [](Len(sensors.baseline_samples) < 10 =>
            /\ compute_baseline_values(sensors).result = FALSE
            /\ compute_baseline_values(sensors).state = sensors
            /\ ~sensors.baseline_computed)
    /\ [][(Len(sensors.baseline_samples) < 10 /\ ApiCompute) =>
            UNCHANGED sensors]_vars

\* C20 witness: the store holds some samples, fewer than 10, inside the
\* baseline window, and nothing has been computed.
C20_Witness ==
    /\ Len(sensors.baseline_samples) \in 1..9
    /\ is_in_baseline_window(sensors)
    /\ ~sensors.baseline_computed
    /\ <<sensors.baseline_hr, sensors.baseline_eda, sensors.baseline_hrv>>
          = <<base_hr, base_eda, DefaultBaselineHrv>>

\* C21: compute_baseline_values is idempotent on success: a call made
\* when computed is already true returns true and is a no-op, the
\* baselines stay at the values of the first successful computation
\* whatever samples were collected in between.
C21_ComputeIdempotent ==
    /\ [](sensors.baseline_computed =>
            /\ compute_baseline_values(sensors).result = TRUE
            /\ compute_baseline_values(sensors).state = sensors)
    /\ [][(sensors.baseline_computed /\ ApiCompute) => UNCHANGED sensors]_vars

IsMeanOf(b, values) ==
    /\ Len(values) * b <= SumSeq(values)
    /\ SumSeq(values) < Len(values) * (b + 1)

\* C23: a successful compute_baseline_values sets baseline_hr,
\* baseline_eda and baseline_hrv to the arithmetic mean of the field over
\* all collected samples and sets computed; when all k >= 10 samples carry
\* (75.0, 2.0, 50.0) the baselines are exactly 75.0, 2.0 and 50.0.
C23_BaselineIsMean ==
    [](Len(sensors.baseline_samples) >= 10 =>
         LET r == compute_baseline_values(sensors)
             n == Len(sensors.baseline_samples)
         IN /\ r.result = TRUE
            /\ r.state.baseline_computed
            /\ IsMeanOf(r.state.baseline_hr,
                        [i \in 1..n |-> sensors.baseline_samples[i].hr])
            /\ IsMeanOf(r.state.baseline_eda,
                        [i \in 1..n |-> sensors.baseline_samples[i].eda])
            /\ IsMeanOf(r.state.baseline_hrv,
                        [i \in 1..n |-> sensors.baseline_samples[i].hrv])
            /\ (\A i \in 1..n :
                  /\ sensors.baseline_samples[i].hr = 750
                  /\ sensors.baseline_samples[i].eda = 2000
                  /\ sensors.baseline_samples[i].hrv = 500) =>
                 <<r.state.baseline_hr, r.state.baseline_eda, r.state.baseline_hrv>>
                    = <<750, 2000, 500>>)

\* C23 witness: the baseline has been computed from eleven or more samples
\* of which at least one differs from the others.
C23_Witness ==
    /\ sensors.baseline_computed
    /\ Len(sensors.baseline_samples) >= 11
    /\ \E i \in 1..Len(sensors.baseline_samples) :
          sensors.baseline_samples[i].hr # 750
    /\ IsMeanOf(sensors.baseline_hr,
                [i \in 1..Len(sensors.baseline_samples) |-> sensors.baseline_samples[i].hr])

\* C24: for every virtual time t the phase predicates classify the
\* protocol consistently: is_in_resting_period iff t < 180 s,
\* is_in_baseline_window iff 180 s <= t < 240 s, never both;
\* should_collect_baseline_sample iff in the window and not computed;
\* is_baseline_protocol_complete iff t >= 240 s and computed.
C24_PhasePredicates ==
    LET t == sensors.current_time
    IN /\ is_in_resting_period(sensors) <=> t < 180 * TimeUnit
       /\ is_in_baseline_window(sensors) <=> (180 * TimeUnit <= t /\ t < 240 * TimeUnit)
       /\ ~(is_in_resting_period(sensors) /\ is_in_baseline_window(sensors))
       /\ should_collect_baseline_sample(sensors) <=>
             (180 * TimeUnit <= t /\ t < 240 * TimeUnit /\ ~sensors.baseline_computed)
       /\ is_baseline_protocol_complete(sensors) <=>
             (t >= 240 * TimeUnit /\ sensors.baseline_computed)

\* C24 witness: the clock is at 240 s exactly with a computed baseline:
\* the protocol is complete and out of the window.
C24_Witness ==
    /\ sensors.current_time = 240 * TimeUnit
    /\ sensors.baseline_computed
    /\ is_baseline_protocol_complete(sensors)
    /\ ~is_in_baseline_window(sensors)

\* virtual time has reached 240 s and the baseline is not computed
Stuck(s) == FloatLess(240 * TimeUnit - 1, s.current_time) /\ ~s.baseline_computed

\* C25: if virtual time reaches 240 s while computed is still false the
\* protocol is stuck: a tick collects no further baseline sample, does not
\* set computed and does not make is_baseline_protocol_complete true, the
\* protocol stays stuck; an explicit reset leaves this state.
C25_StuckWithoutBaseline ==
    /\ [][(Stuck(sensors) /\ Tick) =>
            /\ sensors'.baseline_samples = sensors.baseline_samples
            /\ ~sensors'.baseline_computed
            /\ ~is_baseline_protocol_complete(sensors')
            /\ Stuck(sensors')]_vars
    /\ [](Stuck(sensors) =>
            /\ ~is_baseline_protocol_complete(sensors)
            /\ ~should_collect_baseline_sample(sensors)
            /\ ~Stuck(reset_baseline_protocol(sensors)))

\* C25 witness: ticks have run on a stuck protocol: the clock is past
\* 370 s, which only a tick after the second advance by 185 s gives, the
\* store holds fewer than 10 samples and nothing is computed.
C25_Witness ==
    /\ Stuck(sensors)
    /\ sensors.current_time = 370 * TimeUnit + 2 * stream_interval
    /\ Len(session_data) = 2
    /\ Len(sensors.baseline_samples) \in 1..9


\* number of server_shutdown messages in what a connection was sent
ShutdownCount(w) == Cardinality({i \in 1..Len(w) : w[i] = "server_shutdown"})

\* C26: on shutdown every connection of the registry is sent exactly one
\* server_shutdown message, before the server closes it; a failure while
\* notifying one subscriber does not stop the notification of the others.
\* When a stop_server call has returned, every connection of the registry it
\* found either has the message followed by the close, or its own send
\* failed; no connection ever has a second message, and none is closed by
\* the server without the message before the close.
C26_ShutdownNotification ==
    /\ mpc \in {"returned", "exit"} =>
          \A c \in mloc.snapshot :
              \/ c \in mloc.failed
              \/ wire[c] = <<"server_shutdown", "close">>
    /\ \A c \in Conns :
          /\ ShutdownCount(wire[c]) <= 1
          /\ wire[c] \in {<< >>, <<"server_shutdown">>, <<"server_shutdown", "close">>}

\* C26 witness: the first stop_server call has returned with two
\* connections in the registry; the send to one failed, the other has the
\* message and was closed after it.
C26_Witness ==
    /\ mpc = "returned"
    /\ mloc.snapshot = Conns
    /\ mloc.failed = {"c1"}
    /\ wire["c2"] = <<"server_shutdown", "close">>
    /\ wire["c1"] = << >>


\* C27: a connection is removed from the registry when it disconnects:
\* once the handler of a closed or failed connection has finished, the
\* connection is not a member of the registry, in that state and in every
\* later one, whatever the broadcaster and the other handlers do.
C27_DisconnectedNotRegistered ==
    \A c \in Conns : cpc[c] = "done" => c \notin subscribers

\* C27 witness: c1 subscribed and its handler has finished while a
\* broadcast pass that holds c1 in its snapshot is about to prune; c2 is
\* still registered.
C27_Witness ==
    /\ cpc["c1"] = "done"
    /\ reg["c1"].last = "subscribe"
    /\ bpc = "prune"
    /\ "c1" \in bloc.snapshot
    /\ "c2" \in subscribers


\* C28: a status response reports the state at the moment the command is
\* handled: connected_clients is the size of the registry, stream_frequency_hz
\* the frequency and samples_generated the length of the session log, as
\* they are when the handler returns; the command changes none of them.
C28_StatusReportsState ==
    [][\A c \in Conns : \A name \in {"status", "STATUS"} :
          HandleCommand(c, Req(name, NoHz, "")) =>
              /\ cloc'[c].response.type = "status"
              /\ cloc'[c].response.info[2] = Cardinality(subscribers')
              /\ cloc'[c].response.info[3] = stream_frequency'
              /\ cloc'[c].response.info[4] = Len(session_data')
              /\ UNCHANGED <<subscribers, stream_frequency, session_data>>]_vars

\* C28 witness: c1 has received a status response that reports one
\* subscriber and one generated sample while c2 is subscribed.
C28_Witness ==
    /\ delivered["c1"].type = "status"
    /\ delivered["c1"].info[2] = 1
    /\ delivered["c1"].info[4] = 1
    /\ subscribers = {"c2"}
    /\ Len(session_data) = 1


\* the fields of a Sample (the wall-clock timestamp is outside the model)
SampleFields == {"hr", "eda", "hrv", "stress", "scenario"}

\* C29: the session log is append-only and counts ticks: every call of the
\* tick makes the log one entry longer, no other operation changes it, the
\* entries already appended stay as they are and where they are, and each
\* entry has the fields of a Sample.
C29_SessionLogCountsTicks ==
    /\ [][/\ Len(session_data') >= Len(session_data)
          /\ SubSeq(session_data', 1, Len(session_data)) = session_data
          /\ Tick => Len(session_data') = Len(session_data) + 1
          /\ ~Tick => session_data' = session_data]_vars
    /\ [](\A i \in 1..Len(session_data) : DOMAIN session_data[i] = SampleFields)

\* C30: a server constructed without a frequency argument starts with
\* stream_frequency = 10 Hz and stream_interval = 0.1 s = 1/stream_frequency,
\* is not running and has an empty registry and an empty session log (the
\* server is as constructed until start_server creates the broadcaster).
C30_DefaultConstruction ==
    bpc = "off" =>
        /\ stream_frequency = 10000
        /\ stream_interval = TimeUnit \div 10
        /\ stream_interval = IntervalOf(stream_frequency)
        /\ ~running
        /\ subscribers = {}
        /\ session_data = << >>

\* C31: every Sample a tick of the built-in simulator produces, in every
\* scenario, at every virtual time and for every noise draw, has hr in
\* [50, 180] BPM, eda in [0.1, 10] uS, hrv in [10, 200] ms and stress in
\* [0, 100].
C31_SampleRanges ==
    \A i \in 1..Len(session_data) :
        /\ session_data[i].hr \in 500..1800
        /\ session_data[i].eda \in 100..10000
        /\ session_data[i].hrv \in 100..2000
        /\ session_data[i].stress \in 0..1000

\* C31 witness: the log holds a Sample whose eda draw was far above the
\* range (eda at its upper limit) and a later Sample whose hr draw was far
\* below (hr at its lower limit) and whose hrv was computed from a history
\* of two values (clamped up to 10 ms).
C31_Witness ==
    /\ Len(session_data) = 2
    /\ session_data[1].eda = 10000
    /\ session_data[2].hr = 500
    /\ session_data[2].hrv = 100
    /\ sensors.scenario = "stress_buildup"

\* v is the population standard deviation of the absolute successive
\* RR-interval differences of the history h, clamped to [10, 200] ms
IsClampedSdnn(v, h) ==
    LET n    == Len(h) - 1
        rr   == [i \in 1..(n + 1) |-> 6000000 \div h[i]]
        nn   == [i \in 1..n |-> Abs(rr[i + 1] - rr[i])]
        mean == SumUpTo(nn, n) \div n
        var  == SumUpTo([i \in 1..n |-> (nn[i] - mean) * (nn[i] - mean)], n) \div n
    IN /\ v \in 100..2000
       /\ v > 100 => v * v <= var
       /\ v < 2000 => var < (v + 1) * (v + 1)

C33_ComputeOnTenthSample ==
    [][(/\ Tick
        /\ Len(sensors.baseline_samples) = MinBaselineSamples - 1
        /\ Len(sensors'.baseline_samples) = MinBaselineSamples) =>
          LET samples == sensors'.baseline_samples
          IN /\ sensors'.baseline_computed
             /\ IsMeanOf(sensors'.baseline_hr,
                         [i \in 1..MinBaselineSamples |-> samples[i].hr])
             /\ IsMeanOf(sensors'.baseline_eda,
                         [i \in 1..MinBaselineSamples |-> samples[i].eda])
             /\ IsMeanOf(sensors'.baseline_hrv,
                         [i \in 1..MinBaselineSamples |-> samples[i].hrv])]_vars

\* C34: under server ticks a baseline sample is collected on exactly those
\* ticks that start with 180 s <= t < 240 s and computed = false: such a
\* tick stores one sample that carries the virtual time at which the tick
\* started, a tick that starts while resting, after the window or with
\* computed = true stores none, and every stored sample has a time in
\* [180 s, 240 s).
C34_CollectInWindowOnly ==
    /\ [][Tick =>
            IF /\ Sec(180) <= sensors.current_time
               /\ sensors.current_time < Sec(240)
               /\ ~sensors.baseline_computed
            THEN /\ Len(sensors'.baseline_samples) = Len(sensors.baseline_samples) + 1
                 /\ SubSeq(sensors'.baseline_samples, 1, Len(sensors.baseline_samples))
                       = sensors.baseline_samples
                 /\ sensors'.baseline_samples[Len(sensors'.baseline_samples)].time
                       = sensors.current_time
            ELSE sensors'.baseline_samples = sensors.baseline_samples]_vars
    /\ [](\A i \in 1..Len(sensors.baseline_samples) :
             /\ Sec(180) <= sensors.baseline_samples[i].time
             /\ sensors.baseline_samples[i].time < Sec(240))

\* C34 witness: a tick at 185 s has stored the first sample with its start
\* time, the baseline was computed on 10 samples, and a tick that started
\* inside the window with computed = true has appended its Sample to the
\* log and stored nothing.
C34_Witness ==
    /\ sensors.baseline_computed
    /\ Len(sensors.baseline_samples) = MinBaselineSamples
    /\ sensors.baseline_samples[1].time = Sec(185)
    /\ sensors.baseline_samples[1].eda = 10000
    /\ Len(session_data) = 1
    /\ is_in_baseline_window(sensors)

\* C35: a runtime frequency change takes effect on the next tick: every
\* tick that happens after a successful set_frequency(hz) advances the
\* clock by exactly 1/hz, the interval of the frequency in force when the
\* tick runs, never by the previous interval.
C35_NewIntervalOnNextTick ==
    [][\A task \in Tasks :
          (LeavesTick(task) /\ stream_frequency # DefaultFrequency) =>
              sensors'.current_time =
                  FloatAdd(TickLoc(task).entry[1], IntervalOf(stream_frequency))]_vars

\* C36: a tick that fails is all-or-nothing: when generate_biofeedback_sample
\* raises, so that `once` is answered with an error response, the clock,
\* the HR history, the baseline samples, computed and the session log are
\* as they were when the tick was called.
C36_FailedTickChangesNothing ==
    [][\A c \in Conns :
          (LeavesTick(c) /\ cloc'[c].response.type = "error") =>
              /\ sensors'.current_time = cloc[c].entry[1]
              /\ sensors'.hr_history = cloc[c].entry[2]
              /\ Len(sensors'.baseline_samples) = cloc[c].entry[3]
              /\ sensors'.baseline_computed = sensors.baseline_computed
              /\ Len(session_data') = cloc[c].entry[4]]_vars

\* the client of c has its unsubscription_confirmed as the last message it
\* received, and c has not sent subscribe since
UnsubscribeConfirmed(c) ==
    /\ reg[c].last = "unsubscribe"
    /\ delivered[c].type = "unsubscription_confirmed"

\* the broadcaster starts a send of the stream message to c
StartsStreamSend(c) ==
    /\ bpc' = "sending"
    /\ bloc'.target = c
    /\ bpc # "sending" \/ bloc.target # c

\* C37: after a client's unsubscribe has been processed and its
\* unsubscription_confirmed response sent, the client is sent no further
\* stream message unless it subscribes again, under every interleaving of
\* its connection task with a broadcast pass in progress: the broadcaster
\* starts no send to a connection in that state.
C37_NoStreamAfterUnsubscribe ==
    [][\A c \in Conns : StartsStreamSend(c) => ~UnsubscribeConfirmed(c)]_vars

C39_ShutdownWorkOnce ==
    /\ Len(saved) <= 1
    /\ connector_closes <= 1
    /\ \A c \in Conns : ShutdownCount(wire[c]) <= 1

====
